---- MODULE Spec2Model ----
(***************************************************************************)
(* Model of package generator (generator.go, second revision, the one      *)
(* with query / getMulti / filter): a keys-only paginating goroutine       *)
(* (query) feeding an unbuffered channel `in`, a fan-out goroutine         *)
(* (getMulti) that starts one hydration goroutine per Unit, and the        *)
(* caller reading the unbuffered channel `out`.                            *)
(***************************************************************************)
EXTENDS Integers, Sequences, FiniteSets, TLC

\* ---------------------------------------------------------------- bounds
\* largest result set (number of keys the query matches)
MaxN == 3
\* largest explicit FetchLimit an initial Options value carries
MaxC == 2
\* most transient store failures (iterator, cursor, opaque batch error,
\* misaligned MultiError) injected in one run
MaxFaults == 1
\* longest chunk / MultiError handed to filter by the pure-function harness
MaxLen == 3
\* most stale records, and most otherwise unloadable records, in the store
MaxBad == 1

\* const defaultFetchLimit = 100
defaultFetchLimit == 100

\* most hydration goroutines alive at once on a never-ending result set
MaxInFlight == 2

\* the caller's log and the set of live hydration goroutines stop growing
\* here; a finite result set never reaches these sizes
MaxLog == MaxN + 3
MaxTasks == MaxN + 2

Nil == "nil"

Min(a, b) == IF a < b THEN a ELSE b

\* ---------------------------------------------------------------- errors
\* An error value: kind is "nil", "opaque" (errors.New / goon error),
\* "fieldMismatch" (*datastore.ErrFieldMismatch), "iter" (t.Next failure),
\* "cursor" (t.Cursor failure) or "multi" (appengine.MultiError, with one
\* entry per item: "nil", "fieldMismatch" or "other").  wraps counts the
\* errors.WithStack wrappers around it.
NoErr == [kind |-> "nil", items |-> <<>>, wraps |-> 0]

BareErr(k) == [kind |-> k, items |-> <<>>, wraps |-> 0]

MultiError(its) == [kind |-> "multi", items |-> its, wraps |-> 0]

ItemErrs == {"nil", "fieldMismatch", "other"}

\* errors.WithStack(err): nil stays nil, anything else gets one more wrapper
WithStack(err) ==
    IF err = NoErr THEN NoErr ELSE [err EXCEPT !.wraps = @ + 1]

\* errors.Cause(err): strip every wrapper
Cause(err) == [err EXCEPT !.wraps = 0]

\* mErr, ok := err.(appengine.MultiError): a wrapped error is a *withStack
IsMultiError(err) == err.kind = "multi" /\ err.wraps = 0

\* _, ok := mErr[i].(*datastore.ErrFieldMismatch)
IsErrFieldMismatch(item) == item = "fieldMismatch"

\* ---------------------------------------------------------------- Unit
\* type Unit struct { Entities []interface{}; Err error }.  IsNil tells a
\* nil slice from an empty one.
Unit(ents, err) == [Entities |-> ents, IsNil |-> FALSE, Err |-> err]

ErrUnit(err) == [Entities |-> <<>>, IsNil |-> TRUE, Err |-> err]

\* ---------------------------------------------------------------- filter
\* a loop that gives up with the items kept so far: return filtered, err
RECURSIVE filterLoop_ReturnsFiltered(_, _, _, _)
filterLoop_ReturnsFiltered(entities, err, i, filtered) ==
    IF i > Len(entities) THEN [Entities |-> filtered, Err |-> NoErr]
    ELSE IF err.items[i] = "nil"
        THEN filterLoop_ReturnsFiltered(entities, err, i + 1, Append(filtered, entities[i]))
    ELSE IF IsErrFieldMismatch(err.items[i])
        THEN filterLoop_ReturnsFiltered(entities, err, i + 1, filtered)
    ELSE [Entities |-> filtered, Err |-> err]

\* a loop that keeps the items whose error is an ErrFieldMismatch
RECURSIVE filterLoop_KeepsAll(_, _, _, _)
filterLoop_KeepsAll(entities, err, i, filtered) ==
    IF i > Len(entities) THEN [Entities |-> filtered, Err |-> NoErr]
    ELSE IF err.items[i] = "nil" \/ IsErrFieldMismatch(err.items[i])
        THEN filterLoop_KeepsAll(entities, err, i + 1, Append(filtered, entities[i]))
    ELSE [Entities |-> entities, Err |-> err]

\* a loop that puts each kept item in front of the ones kept before
RECURSIVE filterLoop_Prepends(_, _, _, _)
filterLoop_Prepends(entities, err, i, filtered) ==
    IF i > Len(entities) THEN [Entities |-> filtered, Err |-> NoErr]
    ELSE IF err.items[i] = "nil"
        THEN filterLoop_Prepends(entities, err, i + 1, <<entities[i]>> \o filtered)
    ELSE IF IsErrFieldMismatch(err.items[i])
        THEN filterLoop_Prepends(entities, err, i + 1, filtered)
    ELSE [Entities |-> entities, Err |-> err]

\* the loop of filter: for i := 0; i < len(entities); i++ (i is 1-based here)
RECURSIVE filterLoop(_, _, _, _)
filterLoop(entities, err, i, filtered) ==
    IF i > Len(entities) THEN [Entities |-> filtered, Err |-> NoErr]
    ELSE IF err.items[i] = "nil"
        THEN filterLoop(entities, err, i + 1, Append(filtered, entities[i]))
    ELSE IF IsErrFieldMismatch(err.items[i])
        THEN filterLoop(entities, err, i + 1, filtered)
    ELSE [Entities |-> entities, Err |-> err]

\* the first revision's filter: a bare ErrFieldMismatch empties the chunk
filter_BareMismatchIgnored(entities, err) ==
    IF Len(entities) = 0 \/ err = NoErr THEN [Entities |-> entities, Err |-> err]
    ELSE IF ~IsMultiError(err)
        THEN IF err.kind = "fieldMismatch" /\ err.wraps = 0
             THEN [Entities |-> <<>>, Err |-> NoErr]
             ELSE [Entities |-> entities, Err |-> err]
    ELSE IF Len(entities) # Len(err.items) THEN [Entities |-> <<>>, Err |-> NoErr]
    ELSE filterLoop(entities, err, 1, <<>>)

\* a filter that hands back chunk and error when the lengths differ
filter_LengthMismatchUnchanged(entities, err) ==
    IF Len(entities) = 0 \/ err = NoErr THEN [Entities |-> entities, Err |-> err]
    ELSE IF ~IsMultiError(err) THEN [Entities |-> entities, Err |-> err]
    ELSE IF Len(entities) # Len(err.items) THEN [Entities |-> entities, Err |-> err]
    ELSE filterLoop(entities, err, 1, <<>>)

\* func filter(ctx, entities, err) ([]interface{}, error)
filter(entities, err) ==
    IF Len(entities) = 0 \/ err = NoErr THEN [Entities |-> entities, Err |-> err]
    ELSE IF ~IsMultiError(err) THEN [Entities |-> entities, Err |-> err]
    ELSE IF Len(entities) # Len(err.items) THEN [Entities |-> <<>>, Err |-> NoErr]
    ELSE filterLoop(entities, err, 1, <<>>)

\* ------------------------------------------------- hydration goroutine body
\* strict mode that forwards the chunk next to the error
TaskUnit_StrictKeepsEntities(u, err, ignore) ==
    IF err # NoErr
    THEN IF ~ignore THEN [u EXCEPT !.Err = WithStack(err)]
         ELSE LET f == filter(u.Entities, err) IN
              IF f.Err # NoErr THEN ErrUnit(WithStack(f.Err))
              ELSE Unit(f.Entities, NoErr)
    ELSE u

\* tolerant mode that forwards the unfiltered chunk
TaskUnit_NoFilter(u, err, ignore) ==
    IF err # NoErr
    THEN IF ~ignore THEN ErrUnit(WithStack(err))
         ELSE LET f == filter(u.Entities, err) IN
              IF f.Err # NoErr THEN ErrUnit(WithStack(f.Err))
              ELSE Unit(u.Entities, NoErr)
    ELSE u

\* tolerant mode that forwards the chunk next to the residual error
TaskUnit_ResidualKeepsEntities(u, err, ignore) ==
    IF err # NoErr
    THEN IF ~ignore THEN ErrUnit(WithStack(err))
         ELSE LET f == filter(u.Entities, err) IN
              IF f.Err # NoErr THEN Unit(f.Entities, WithStack(f.Err))
              ELSE Unit(f.Entities, NoErr)
    ELSE u

\* the Unit a hydration goroutine sends, given its input Unit u and the
\* error err that g.GetMulti(u.Entities) returned
TaskUnit(u, err, ignore) ==
    IF err # NoErr
    THEN IF ~ignore THEN ErrUnit(WithStack(err))
         ELSE LET f == filter(u.Entities, err) IN
              IF f.Err # NoErr THEN ErrUnit(WithStack(f.Err))
              ELSE Unit(f.Entities, NoErr)
    ELSE u

\* ---------------------------------------------------------------- state
VARIABLES
    optsIn,     \* the *Options the caller passes (NilOptions for a nil pointer)
    N,          \* number of keys the query matches; key p is the p-th result
    endless,    \* TRUE: the iterator never reports datastore.Done
    stale,      \* keys whose stored record yields ErrFieldMismatch on fetch
    broken,     \* keys whose fetch yields another per-item error
    o,          \* the Options the goroutines read
    started,    \* the goroutines are running
    consumer,   \* who reads the channel in: "getMulti" (New) or "caller"
    cancelled,  \* ctx.Done() is closed
    qpc,        \* query goroutine: "fetch", "check", "send", "sendErr", "done", "panic"
    cur,        \* var cur *datastore.Cursor: <<>> is nil, <<p>> points at position p
    qunit,      \* the Unit the query goroutine is about to send
    qdone,      \* isDone of the current iteration
    emitted,    \* number of Units sent on in (finite result sets only)
    pages,      \* the iterations of query's loop that reached the select
    hpc,        \* getMulti goroutine: "none", "recv", "sendErr", "wait", "closed"
    hunit,      \* the error Unit the getMulti goroutine is about to send
    tasks,      \* the hydration goroutines that have not sent yet, in start order
    received,   \* what the caller received so far, in order
    faults,     \* transient store failures injected so far
    fEntities,  \* filter harness: the chunk
    fErr,       \* filter harness: the error
    fIgnore,    \* filter harness: IgnoreErrFieldMismatch
    fOut,       \* filter harness: what filter returned
    fUnit,      \* filter harness: the Unit a hydration goroutine makes of it
    fpc         \* filter harness: "idle", "init", "filtered", "hydrated"

confVars == <<optsIn, N, endless, stale, broken>>
queryVars == <<qpc, cur, qunit, qdone, emitted, pages>>
hydVars == <<hpc, hunit, tasks>>
filterVars == <<fEntities, fErr, fIgnore, fOut, fUnit, fpc>>
vars == <<optsIn, N, endless, stale, broken, o, started, consumer, cancelled,
          qpc, cur, qunit, qdone, emitted, pages, hpc, hunit, tasks, received,
          faults, fEntities, fErr, fIgnore, fOut, fUnit, fpc>>

\* ---------------------------------------------------------------- Options
Appenders == {"one", "none"}

NilOptions ==
    [nil |-> TRUE, Appender |-> Nil, FetchLimit |-> 0,
     IgnoreErrFieldMismatch |-> FALSE, Query |-> Nil]

GivenOptions ==
    [nil : {FALSE}, Appender : Appenders, FetchLimit : 0..MaxC,
     IgnoreErrFieldMismatch : BOOLEAN, Query : {"q"}]

\* New forgets the zero FetchLimit
Normalize_KeepsZero(opts) ==
    IF opts.nil
    THEN [nil |-> FALSE, Appender |-> Nil, FetchLimit |-> defaultFetchLimit,
          IgnoreErrFieldMismatch |-> FALSE, Query |-> Nil]
    ELSE opts

\* the head of New: nil Options and a zero FetchLimit get the default
Normalize(opts) ==
    IF opts.nil
    THEN [nil |-> FALSE, Appender |-> Nil, FetchLimit |-> defaultFetchLimit,
          IgnoreErrFieldMismatch |-> FALSE, Query |-> Nil]
    ELSE IF opts.FetchLimit = 0
    THEN [opts EXCEPT !.FetchLimit = defaultFetchLimit]
    ELSE opts

\* the shaping functions of the tests: "one" appends a stub for the key
\* (appender), "none" returns a fresh empty slice (TestIgnoreAll)
Appender(mode, entities, i, k) ==
    IF mode = "one" THEN Append(entities, k) ELSE <<>>

\* ---------------------------------------------------------------- store
\* the position after the key at position p+1 was returned
NextPos(p) == IF endless THEN (p + 1) % N ELSE p + 1

\* an iteration that pulls one key more than the limit
RECURSIVE Pull_OneMore(_, _, _, _, _)
Pull_OneMore(i, limit, p, ents, failAt) ==
    IF i > limit THEN [status |-> "ok", isDone |-> FALSE, entities |-> ents, pos |-> p]
    ELSE IF failAt = i + 1
        THEN [status |-> "err", isDone |-> FALSE, entities |-> ents, pos |-> p]
    ELSE IF ~endless /\ p >= N
        THEN [status |-> "ok", isDone |-> TRUE, entities |-> ents, pos |-> p]
    ELSE Pull_OneMore(i + 1, limit, NextPos(p), Appender(o.Appender, ents, i, p + 1), failAt)

\* an iteration whose cursor lands one key past the last key of a full page
RECURSIVE Pull_CursorSkips(_, _, _, _, _)
Pull_CursorSkips(i, limit, p, ents, failAt) ==
    IF i >= limit THEN [status |-> "ok", isDone |-> FALSE, entities |-> ents, pos |-> p + 1]
    ELSE IF failAt = i + 1
        THEN [status |-> "err", isDone |-> FALSE, entities |-> ents, pos |-> p]
    ELSE IF ~endless /\ p >= N
        THEN [status |-> "ok", isDone |-> TRUE, entities |-> ents, pos |-> p]
    ELSE Pull_CursorSkips(i + 1, limit, NextPos(p), Appender(o.Appender, ents, i, p + 1), failAt)

\* an iteration that reports Done when a full page used up the result set
RECURSIVE Pull_DoneWhenExhausted(_, _, _, _, _)
Pull_DoneWhenExhausted(i, limit, p, ents, failAt) ==
    IF i >= limit
        THEN [status |-> "ok", isDone |-> ~endless /\ p >= N, entities |-> ents, pos |-> p]
    ELSE IF failAt = i + 1
        THEN [status |-> "err", isDone |-> FALSE, entities |-> ents, pos |-> p]
    ELSE IF ~endless /\ p >= N
        THEN [status |-> "ok", isDone |-> TRUE, entities |-> ents, pos |-> p]
    ELSE Pull_DoneWhenExhausted(i + 1, limit, NextPos(p), Appender(o.Appender, ents, i, p + 1), failAt)

\* for i := 0; i < o.FetchLimit; i++ { k, err := t.Next(nil) ... } on an
\* iterator standing at position p; the failAt-th call of t.Next fails
RECURSIVE Pull(_, _, _, _, _)
Pull(i, limit, p, ents, failAt) ==
    IF i >= limit THEN [status |-> "ok", isDone |-> FALSE, entities |-> ents, pos |-> p]
    ELSE IF failAt = i + 1
        THEN [status |-> "err", isDone |-> FALSE, entities |-> ents, pos |-> p]
    ELSE IF ~endless /\ p >= N
        THEN [status |-> "ok", isDone |-> TRUE, entities |-> ents, pos |-> p]
    ELSE Pull(i + 1, limit, NextPos(p), Appender(o.Appender, ents, i, p + 1), failAt)

\* how many t.Next calls an iteration from position p makes at most
NumCalls(limit, p) == IF endless THEN limit ELSE Min(limit, N - p + 1)

\* the per-item errors the store reports for a chunk
Aligned(ents) ==
    [i \in 1..Len(ents) |->
        IF ents[i] \in stale THEN "fieldMismatch"
        ELSE IF ents[i] \in broken THEN "other" ELSE "nil"]

\* g.GetMulti(ents) when the store itself works: a MultiError aligned with
\* the chunk when some record cannot be loaded, nil otherwise
GetMulti(ents) ==
    IF \A i \in 1..Len(ents) : Aligned(ents)[i] = "nil"
    THEN NoErr ELSE MultiError(Aligned(ents))

\* what g.GetMulti(ents) returns when the call itself goes wrong
GetMultiFaults(ents) ==
    {BareErr("opaque"), BareErr("fieldMismatch"),
     MultiError(Append(Aligned(ents), "fieldMismatch"))}

\* ---------------------------------------------------------------- caller log
\* one entry per Unit the caller received: the Unit, the number of the
\* query Unit it stems from, the error the batch fetch returned for it,
\* who sent it, and (for a caller reading query's channel itself) whether
\* the context was already cancelled
Entry(u, no, ferr, src) ==
    [unit |-> u, no |-> no, fetchErr |-> ferr, src |-> src,
     afterCancel |-> cancelled /\ consumer = "caller"]

\* the log is not kept for a result set that never ends, and stops growing
\* at MaxLog entries
Log(e) ==
    IF ~endless /\ Len(received) < MaxLog THEN Append(received, e) ELSE received

Remove(seq, i) == SubSeq(seq, 1, i - 1) \o SubSeq(seq, i + 1, Len(seq))

\* ---------------------------------------------------------------- Init
Configs ==
    /\ N \in 0..MaxN
    /\ stale \in {s \in SUBSET (1..N) : Cardinality(s) <= MaxBad}
    /\ broken \in {s \in SUBSET ((1..N) \ stale) : Cardinality(s) <= MaxBad}

Idle ==
    /\ cancelled = FALSE
    /\ cur = <<>>
    /\ qunit = ErrUnit(NoErr)
    /\ qdone = FALSE
    /\ emitted = 0
    /\ pages = <<>>
    /\ hunit = ErrUnit(NoErr)
    /\ tasks = <<>>
    /\ received = <<>>
    /\ faults = 0

NoFilterHarness ==
    /\ fEntities = <<>>
    /\ fErr = NoErr
    /\ fIgnore = FALSE
    /\ fOut = [Entities |-> <<>>, Err |-> NoErr]
    /\ fUnit = ErrUnit(NoErr)
    /\ fpc = "idle"

\* the caller is about to call New(ctx, optsIn)
Init ==
    /\ Configs
    /\ endless = FALSE
    /\ optsIn \in GivenOptions \cup {NilOptions}
    /\ o = NilOptions
    /\ started = FALSE
    /\ consumer = "getMulti"
    /\ qpc = "none"
    /\ hpc = "none"
    /\ Idle
    /\ NoFilterHarness

\* ---------------------------------------------------------------- New
\* func New: normalise the Options, start query and getMulti
New ==
    /\ ~started
    /\ consumer = "getMulti"
    /\ started' = TRUE
    /\ o' = Normalize(optsIn)
    /\ qpc' = "fetch"
    /\ hpc' = "recv"
    /\ UNCHANGED <<confVars, consumer, cancelled, cur, qunit, qdone, emitted,
                   pages, hunit, tasks, received, faults, filterVars>>

\* ---------------------------------------------------------------- query
\* which t.Next call of this iteration fails: 0 for none
FailChoices(limit, p) ==
    {0} \cup (IF faults < MaxFaults THEN 1..NumCalls(limit, p) ELSE {})

\* one iteration that reached the select: where the iterator started, the
\* FetchLimit in force, how many keys t.Next returned, whether it reported
\* Done, and cur before and after
Page(start, r) ==
    [start |-> start, limit |-> o.FetchLimit, pulled |-> r.pos - start,
     isDone |-> r.isDone, curBefore |-> cur,
     curAfter |-> IF r.isDone THEN cur ELSE <<r.pos>>]

\* the pages are not kept for a result set that never ends, and stop
\* growing at MaxLog entries
LogPage(e) ==
    IF ~endless /\ Len(pages) < MaxLog THEN Append(pages, e) ELSE pages

\* an iteration that returns without a send when the last chunk is empty
QueryFetch_SkipsEmpty ==
    /\ started
    /\ qpc = "fetch"
    /\ IF o.Query = Nil
       THEN /\ qpc' = "panic"
            /\ UNCHANGED <<cur, qunit, qdone, pages, faults>>
       ELSE LET start == IF cur = <<>> THEN 0 ELSE cur[1] IN
            \E failAt \in FailChoices(o.FetchLimit, start) :
            \E cursorFails \in {FALSE} \cup
                    (IF failAt = 0 /\ faults < MaxFaults THEN {TRUE} ELSE {}) :
              LET r == Pull(0, o.FetchLimit, start, <<>>, failAt) IN
              IF r.status = "err"
              THEN /\ qunit' = ErrUnit(WithStack(BareErr("iter")))
                   /\ qpc' = "sendErr"
                   /\ faults' = faults + 1
                   /\ UNCHANGED <<cur, qdone, pages>>
              ELSE IF ~r.isDone /\ cursorFails
              THEN /\ qunit' = ErrUnit(WithStack(BareErr("cursor")))
                   /\ qpc' = "sendErr"
                   /\ faults' = faults + 1
                   /\ UNCHANGED <<cur, qdone, pages>>
              ELSE /\ qunit' = Unit(r.entities, NoErr)
                   /\ qdone' = r.isDone
                   /\ cur' = IF r.isDone THEN cur ELSE <<r.pos>>
                   /\ pages' = LogPage(Page(start, r))
                   /\ qpc' = IF r.isDone /\ r.pos = start THEN "done" ELSE "check"
                   /\ UNCHANGED faults
    /\ UNCHANGED <<confVars, o, started, consumer, cancelled, emitted,
                   hydVars, received, filterVars>>

\* one iteration of query's loop up to the select: build the query from
\* the cursor, pull up to FetchLimit keys, capture the cursor
QueryFetch ==
    /\ started
    /\ qpc = "fetch"
    /\ IF o.Query = Nil
       THEN \* o.Query.KeysOnly() on a nil *datastore.Query
            /\ qpc' = "panic"
            /\ UNCHANGED <<cur, qunit, qdone, pages, faults>>
       ELSE LET start == IF cur = <<>> THEN 0 ELSE cur[1] IN
            \E failAt \in FailChoices(o.FetchLimit, start) :
            \E cursorFails \in {FALSE} \cup
                    (IF failAt = 0 /\ faults < MaxFaults THEN {TRUE} ELSE {}) :
              LET r == Pull(0, o.FetchLimit, start, <<>>, failAt) IN
              IF r.status = "err"
              THEN /\ qunit' = ErrUnit(WithStack(BareErr("iter")))
                   /\ qpc' = "sendErr"
                   /\ faults' = faults + 1
                   /\ UNCHANGED <<cur, qdone, pages>>
              ELSE IF ~r.isDone /\ cursorFails
              THEN /\ qunit' = ErrUnit(WithStack(BareErr("cursor")))
                   /\ qpc' = "sendErr"
                   /\ faults' = faults + 1
                   /\ UNCHANGED <<cur, qdone, pages>>
              ELSE /\ qunit' = Unit(r.entities, NoErr)
                   /\ qdone' = r.isDone
                   /\ cur' = IF r.isDone THEN cur ELSE <<r.pos>>
                   /\ pages' = LogPage(Page(start, r))
                   /\ qpc' = "check"
                   /\ UNCHANGED faults
    /\ UNCHANGED <<confVars, o, started, consumer, cancelled, emitted,
                   hydVars, received, filterVars>>

\* a select that never looks at ctx.Done()
QueryCheck_NoCancel ==
    /\ qpc = "check"
    /\ qpc' = "send"
    /\ UNCHANGED <<confVars, o, started, consumer, cancelled, cur, qunit, qdone,
                   emitted, pages, hydVars, received, faults, filterVars>>

\* select { case <-ctx.Done(): return; default: ... }
QueryCheck ==
    /\ qpc = "check"
    /\ qpc' = IF cancelled THEN "done" ELSE "send"
    /\ UNCHANGED <<confVars, o, started, consumer, cancelled, cur, qunit, qdone,
                   emitted, pages, hydVars, received, faults, filterVars>>

\* a loop that goes on after the send of an error Unit
AfterSend_ContinuesAfterError == IF qdone THEN "done" ELSE "fetch"

\* where the query goroutine goes once its send on in has been taken:
\* an error Unit or the final chunk ends it (defer close(in))
AfterSend == IF qpc = "sendErr" \/ qdone THEN "done" ELSE "fetch"

\* the number of the Unit being sent; a never-ending result set has no count
NextNo == IF endless THEN 0 ELSE Min(emitted + 1, MaxLog)

\* most hydration goroutines alive at once
TaskCap == IF endless THEN MaxInFlight ELSE MaxTasks

Sent ==
    /\ qpc' = AfterSend
    /\ emitted' = NextNo
    /\ UNCHANGED <<cur, qunit, qdone, pages>>

\* ---------------------------------------------------------------- getMulti
\* a hydration goroutine just started on Unit u
Task(u, no) == [u |-> u, no |-> no, err |-> NoErr, res |-> u, pc |-> "fetch"]

\* a range loop that starts a hydration goroutine for non-empty chunks only
HydrateRecv_SkipsEmpty ==
    /\ hpc = "recv"
    /\ qpc \in {"send", "sendErr"}
    /\ Len(tasks) < TaskCap
    /\ Sent
    /\ IF qunit.Err # NoErr
       THEN /\ hunit' = ErrUnit(WithStack(qunit.Err))
            /\ hpc' = "sendErr"
            /\ UNCHANGED tasks
       ELSE /\ tasks' = IF qunit.Entities = <<>> THEN tasks
                        ELSE Append(tasks, Task(qunit, NextNo))
            /\ UNCHANGED <<hpc, hunit>>
    /\ UNCHANGED <<confVars, o, started, consumer, cancelled, received, faults,
                   filterVars>>

\* for u := range in, one Unit: in <- Unit{...} of query meets the receive
HydrateRecv ==
    /\ hpc = "recv"
    /\ qpc \in {"send", "sendErr"}
    /\ Len(tasks) < TaskCap
    /\ Sent
    /\ IF qunit.Err # NoErr
       THEN /\ hunit' = ErrUnit(WithStack(qunit.Err))
            /\ hpc' = "sendErr"
            /\ UNCHANGED tasks
       ELSE /\ tasks' = Append(tasks, Task(qunit, NextNo))
            /\ UNCHANGED <<hpc, hunit>>
    /\ UNCHANGED <<confVars, o, started, consumer, cancelled, received, faults,
                   filterVars>>

\* a range loop that ends while query may still send
HydrateInClosed_StopsEarly ==
    /\ hpc = "recv"
    /\ hpc' = "wait"
    /\ UNCHANGED <<confVars, o, started, consumer, cancelled, queryVars, hunit,
                   tasks, received, faults, filterVars>>

\* for u := range in, when in is closed: the loop ends
HydrateInClosed ==
    /\ hpc = "recv"
    /\ qpc = "done"
    /\ hpc' = "wait"
    /\ UNCHANGED <<confVars, o, started, consumer, cancelled, queryVars, hunit,
                   tasks, received, faults, filterVars>>

\* out <- Unit{nil, errors.WithStack(u.Err)}; return, taken by the caller
HydrateSendErr ==
    /\ hpc = "sendErr"
    /\ received' = Log(Entry(hunit, emitted, NoErr, "getMulti"))
    /\ hpc' = "wait"
    /\ UNCHANGED <<confVars, o, started, consumer, cancelled, queryVars, hunit,
                   tasks, faults, filterVars>>

\* a deferred close(out) that does not wait for the hydration goroutines
HydrateClose_NoWait ==
    /\ hpc = "wait"
    /\ hpc' = "closed"
    /\ UNCHANGED <<confVars, o, started, consumer, cancelled, queryVars, hunit,
                   tasks, received, faults, filterVars>>

\* defer func() { wg.Wait(); close(out) }()
HydrateClose ==
    /\ hpc = "wait"
    /\ tasks = <<>>
    /\ hpc' = "closed"
    /\ UNCHANGED <<confVars, o, started, consumer, cancelled, queryVars, hunit,
                   tasks, received, faults, filterVars>>

\* a hydration goroutine up to its send: g.GetMulti, then filter if asked
TaskFetch(i) ==
    /\ tasks[i].pc = "fetch"
    /\ \E injected \in {FALSE} \cup (IF faults < MaxFaults THEN {TRUE} ELSE {}) :
       \E e \in IF injected THEN GetMultiFaults(tasks[i].u.Entities)
                ELSE {GetMulti(tasks[i].u.Entities)} :
         /\ tasks' = [tasks EXCEPT ![i].err = e,
                                   ![i].res = TaskUnit(tasks[i].u, e, o.IgnoreErrFieldMismatch),
                                   ![i].pc = "send"]
         /\ faults' = IF injected THEN faults + 1 ELSE faults
    /\ UNCHANGED <<confVars, o, started, consumer, cancelled, queryVars, hpc,
                   hunit, received, filterVars>>

\* a hydration goroutine that sends and returns without wg.Done()
TaskSend_NoDone(i) ==
    /\ tasks[i].pc = "send"
    /\ received' = Log(Entry(tasks[i].res, tasks[i].no, tasks[i].err, "task"))
    /\ tasks' = [tasks EXCEPT ![i].pc = "sent"]
    /\ UNCHANGED <<confVars, o, started, consumer, cancelled, queryVars, hpc,
                   hunit, faults, filterVars>>

\* out <- Unit{...} of a hydration goroutine, taken by the caller; wg.Done()
TaskSend(i) ==
    /\ tasks[i].pc = "send"
    /\ received' = Log(Entry(tasks[i].res, tasks[i].no, tasks[i].err, "task"))
    /\ tasks' = Remove(tasks, i)
    /\ UNCHANGED <<confVars, o, started, consumer, cancelled, queryVars, hpc,
                   hunit, faults, filterVars>>

\* ---------------------------------------------------------------- caller
\* cancel()
Cancel ==
    /\ started
    /\ ~cancelled
    /\ qpc # "panic"
    /\ cancelled' = TRUE
    /\ UNCHANGED <<confVars, o, started, consumer, queryVars, hydVars, received,
                   faults, filterVars>>

\* <-in by a caller that reads query's channel itself (TestQueryWithCancelled)
QueryRecv ==
    /\ consumer = "caller"
    /\ qpc \in {"send", "sendErr"}
    /\ Sent
    /\ received' = Log(Entry(qunit, NextNo, NoErr, "query"))
    /\ UNCHANGED <<confVars, o, started, consumer, cancelled, hydVars, faults,
                   filterVars>>

\* ---------------------------------------------------------------- filter harness
\* filtered, err := filter(ctx, fEntities, fErr)
FilterCall ==
    /\ fpc = "init"
    /\ fOut' = filter(fEntities, fErr)
    /\ fpc' = "filtered"
    /\ UNCHANGED <<confVars, o, started, consumer, cancelled, queryVars, hydVars,
                   received, faults, fEntities, fErr, fIgnore, fUnit>>

\* the body of a hydration goroutine whose g.GetMulti(fEntities) returned fErr
TaskCall ==
    /\ fpc = "filtered"
    /\ fUnit' = TaskUnit(Unit(fEntities, NoErr), fErr, fIgnore)
    /\ fpc' = "hydrated"
    /\ UNCHANGED <<confVars, o, started, consumer, cancelled, queryVars, hydVars,
                   received, faults, fEntities, fErr, fIgnore, fOut>>

Next ==
    \/ New
    \/ QueryFetch
    \/ QueryCheck
    \/ HydrateRecv
    \/ HydrateInClosed
    \/ HydrateSendErr
    \/ HydrateClose
    \/ \E i \in 1..Len(tasks) : TaskFetch(i)
    \/ \E i \in 1..Len(tasks) : TaskSend(i)
    \/ Cancel

Spec == Init /\ [][Next]_vars

\* ------------------------------------------------- fair scheduling
\* New on a result set that may never end
InitLive ==
    /\ N \in 0..MaxN
    /\ stale = {}
    /\ broken = {}
    /\ endless \in {e \in BOOLEAN : e => N >= 1}
    /\ optsIn \in {g \in GivenOptions : endless => g.FetchLimit >= 1}
    /\ o = NilOptions
    /\ started = FALSE
    /\ consumer = "getMulti"
    /\ qpc = "none"
    /\ hpc = "none"
    /\ Idle
    /\ NoFilterHarness

\* every goroutine that can take a step eventually takes one, every store
\* call returns, and the caller keeps receiving from out
Fairness ==
    /\ WF_vars(QueryFetch)
    /\ WF_vars(QueryCheck)
    /\ WF_vars(HydrateRecv)
    /\ WF_vars(HydrateInClosed)
    /\ WF_vars(HydrateSendErr)
    /\ WF_vars(HydrateClose)
    /\ WF_vars(\E i \in 1..Len(tasks) : TaskFetch(i))
    /\ WF_vars(\E i \in 1..Len(tasks) : TaskSend(i))

SpecLive == InitLive /\ [][Next]_vars /\ Fairness

\* ------------------------------------------------- query read by the caller
\* the caller called query(ctx, o) itself and reads its channel
InitQuery ==
    /\ N \in 0..MaxN
    /\ stale = {}
    /\ broken = {}
    /\ endless = FALSE
    /\ optsIn \in {g \in GivenOptions : ~g.IgnoreErrFieldMismatch}
    /\ o = optsIn
    /\ started = TRUE
    /\ consumer = "caller"
    /\ qpc = "fetch"
    /\ hpc = "none"
    /\ Idle
    /\ NoFilterHarness

NextQuery ==
    \/ QueryFetch
    \/ QueryCheck
    \/ QueryRecv
    \/ Cancel

SpecQuery == InitQuery /\ [][NextQuery]_vars

\* ------------------------------------------------- filter on its own
SeqsUpTo(S, n) == UNION {[1..k -> S] : k \in 0..n}

\* chunks 1..n and n..1
FilterChunks ==
    {[i \in 1..n |-> i] : n \in 0..MaxLen} \cup {[i \in 1..n |-> n + 1 - i] : n \in 2..MaxLen}

FilterErrs ==
    {NoErr, BareErr("opaque"), BareErr("fieldMismatch"),
     WithStack(MultiError(<<"fieldMismatch">>))}
    \cup {MultiError(its) : its \in SeqsUpTo(ItemErrs, MaxLen + 1)}

InitFilter ==
    /\ N = 0
    /\ stale = {}
    /\ broken = {}
    /\ endless = FALSE
    /\ optsIn = NilOptions
    /\ o = NilOptions
    /\ started = FALSE
    /\ consumer = "none"
    /\ qpc = "none"
    /\ hpc = "none"
    /\ Idle
    /\ fEntities \in FilterChunks
    /\ fErr \in FilterErrs
    /\ fIgnore \in BOOLEAN
    /\ fOut = [Entities |-> <<>>, Err |-> NoErr]
    /\ fUnit = ErrUnit(NoErr)
    /\ fpc = "init"

NextFilter ==
    \/ FilterCall
    \/ TaskCall

SpecFilter == InitFilter /\ [][NextFilter]_vars

\* ---------------------------------------------------------------- claims
RECURSIVE TotalEntities(_)
TotalEntities(log) ==
    IF log = <<>> THEN 0
    ELSE Len(Head(log).unit.Entities) + TotalEntities(Tail(log))

ErrorFree(log) == \A i \in 1..Len(log) : log[i].unit.Err = NoErr

CeilDiv(a, b) == (a + b - 1) \div b

\* no store call failed: no transient failure was injected and every
\* record of the result set loads
NoStoreFailure == faults = 0 /\ stale = {} /\ broken = {}

\* C1: with the one-stub-per-key shaping function, no failing store call
\* and a caller that never cancels, no Unit delivered by New carries an
\* error, and once the stream is closed the delivered Units hold N entities
\* in total.
C1_AllEntitiesDelivered ==
    (o.Appender = "one" /\ NoStoreFailure /\ ~cancelled)
        => /\ ErrorFree(received)
           /\ hpc = "closed" => TotalEntities(received) = N

\* a drained pipeline over several chunks
C1_Witness ==
    /\ o.Appender = "one" /\ NoStoreFailure /\ ~cancelled
    /\ hpc = "closed"
    /\ N = MaxN
    /\ o.FetchLimit = 2
    /\ Len(received) = 2
    /\ received[1].no = 2

\* C2 as claimed: without store error or cancellation, query emits exactly
\* ceil(N/C) Units before it closes its channel.
C2_CeilChunks ==
    (qpc = "done" /\ ~cancelled /\ faults = 0 /\ o.FetchLimit >= 1)
        => emitted = CeilDiv(N, o.FetchLimit)

\* C2 as amended: without store error or cancellation, query emits exactly
\* floor(N/C) + 1 Units before it closes its channel (a last, possibly
\* empty, chunk follows every run of full chunks).
C2_FloorPlusOneChunks ==
    (qpc = "done" /\ ~cancelled /\ faults = 0 /\ o.FetchLimit >= 1)
        => /\ emitted = (N \div o.FetchLimit) + 1
           /\ Len(received) = emitted

\* a result set that is a whole number of chunks, read to the end
C2_Witness ==
    /\ qpc = "done" /\ ~cancelled /\ faults = 0
    /\ o.FetchLimit = 2
    /\ N = 2
    /\ emitted = 2

\* C3: an error Unit is the last Unit the caller receives from New's stream.
C3_ErrorUnitIsLast ==
    \A i \in 1..Len(received) : received[i].unit.Err # NoErr => i = Len(received)

\* C5: a caller that reads one Unit from query's channel and then cancels
\* receives no further Unit: the next receive finds the channel closed.
C5_ClosedAfterCancel ==
    ~ /\ faults = 0
      /\ N > o.FetchLimit
      /\ Len(received) >= 2
      /\ ~received[1].afterCancel
      /\ received[2].afterCancel

\* the only failing store calls are batch fetches that return an aligned
\* MultiError whose non-nil entries are ErrFieldMismatch
OnlyFieldMismatches == faults = 0 /\ broken = {}

\* C6: with IgnoreErrFieldMismatch set, the one-stub-per-key shaping
\* function, no cancellation and no failure other than per-item
\* ErrFieldMismatch entries for s records, no Unit delivered carries an
\* error, and once the stream is closed the delivered Units hold N - s
\* entities in total.
C6_TolerantDropsStale ==
    (o.Appender = "one" /\ o.IgnoreErrFieldMismatch /\ OnlyFieldMismatches /\ ~cancelled)
        => /\ ErrorFree(received)
           /\ hpc = "closed" => TotalEntities(received) = N - Cardinality(stale)

\* a drained tolerant pipeline whose store holds a stale record
C6_Witness ==
    /\ o.Appender = "one" /\ o.IgnoreErrFieldMismatch /\ OnlyFieldMismatches
    /\ ~cancelled
    /\ hpc = "closed"
    /\ N = MaxN
    /\ stale = {2}
    /\ o.FetchLimit = 2
    /\ TotalEntities(received) = N - 1

\* a Unit that carries exactly the batch error and nothing else
CarriesOnly(u, err) ==
    /\ u.Err # NoErr
    /\ Cause(u.Err) = err
    /\ u.Entities = <<>>

\* C7: with IgnoreErrFieldMismatch unset, a hydration goroutine whose batch
\* fetch returned an error (whatever its kind) sends an error Unit whose
\* cause is that error, with none of the chunk's records.
C7_StrictForwardsBatchError ==
    (started /\ ~o.IgnoreErrFieldMismatch)
        => /\ \A i \in 1..Len(tasks) :
                (tasks[i].pc = "send" /\ tasks[i].err # NoErr)
                    => CarriesOnly(tasks[i].res, tasks[i].err)
           /\ \A i \in 1..Len(received) :
                (received[i].src = "task" /\ received[i].fetchErr # NoErr)
                    => CarriesOnly(received[i].unit, received[i].fetchErr)

\* strict mode delivered the MultiError of a chunk whose only failure is
\* a stale record
C7_Witness ==
    /\ started /\ ~o.IgnoreErrFieldMismatch
    /\ \E i \in 1..Len(received) :
        /\ received[i].src = "task"
        /\ received[i].fetchErr = MultiError(<<"nil", "fieldMismatch">>)
        /\ received[i].unit = ErrUnit(WithStack(received[i].fetchErr))

\* the items of the chunk whose per-item error is nil, in the chunk's order
Survivors(entities, items) ==
    LET idx == SelectSeq([i \in 1..Len(entities) |-> i], LAMBDA i : items[i] = "nil")
    IN [j \in 1..Len(idx) |-> entities[idx[j]]]

CountOf(items, what) == Cardinality({i \in 1..Len(items) : items[i] = what})

\* C8: for a chunk of n >= 1 items and a MultiError of length n with k
\* ErrFieldMismatch entries and n-k nil entries, filter returns a nil error
\* and the n-k items whose entry is nil, in their original order.
C8_FilterDropsMismatches ==
    (/\ fpc \in {"filtered", "hydrated"}
     /\ Len(fEntities) >= 1
     /\ IsMultiError(fErr)
     /\ Len(fErr.items) = Len(fEntities)
     /\ \A i \in 1..Len(fErr.items) : fErr.items[i] \in {"nil", "fieldMismatch"})
        => /\ fOut.Err = NoErr
           /\ Len(fOut.Entities) = Len(fEntities) - CountOf(fErr.items, "fieldMismatch")
           /\ fOut.Entities = Survivors(fEntities, fErr.items)

\* filter ran on a chunk with a mismatch between two loadable items
C8_Witness ==
    /\ fpc = "filtered"
    /\ fEntities = <<3, 2, 1>>
    /\ fErr = MultiError(<<"nil", "fieldMismatch", "nil">>)
    /\ fOut = [Entities |-> <<3, 1>>, Err |-> NoErr]

\* C9: for a non-empty chunk and an error that is no MultiError, filter
\* returns the chunk and the error unchanged, also for a bare
\* ErrFieldMismatch; the hydration goroutine then sends an error Unit
\* carrying that error, with or without IgnoreErrFieldMismatch.
C9_BareErrorUnchanged ==
    (/\ fpc = "hydrated"
     /\ Len(fEntities) >= 1
     /\ fErr # NoErr
     /\ ~IsMultiError(fErr))
        => /\ fOut = [Entities |-> fEntities, Err |-> fErr]
           /\ fUnit.Err # NoErr
           /\ Cause(fUnit.Err) = Cause(fErr)
           /\ fUnit.Entities = <<>>

\* a tolerant hydration goroutine met a bare ErrFieldMismatch
C9_Witness ==
    /\ fpc = "hydrated"
    /\ fIgnore
    /\ Len(fEntities) = 2
    /\ fErr = BareErr("fieldMismatch")
    /\ fUnit = ErrUnit(WithStack(fErr))

\* C10: for a chunk and a MultiError of the same length with at least one
\* non-nil entry that is no ErrFieldMismatch, filter returns the whole
\* chunk and the error unchanged, wherever that entry sits.
C10_OtherItemErrorAborts ==
    (/\ fpc \in {"filtered", "hydrated"}
     /\ IsMultiError(fErr)
     /\ Len(fErr.items) = Len(fEntities)
     /\ CountOf(fErr.items, "other") >= 1)
        => fOut = [Entities |-> fEntities, Err |-> fErr]

\* filter met the other error after a kept and a dropped item
C10_Witness ==
    /\ fpc = "filtered"
    /\ fEntities = <<1, 2, 3>>
    /\ fErr = MultiError(<<"nil", "fieldMismatch", "other">>)
    /\ fOut = [Entities |-> <<1, 2, 3>>, Err |-> fErr]

\* every goroutine of the pipeline has returned and out is closed
AllStopped == hpc = "closed" /\ qpc = "done" /\ tasks = <<>>

\* C4: once the caller has cancelled, if it keeps receiving and every
\* store call returns, the stream is eventually closed with no goroutine
\* left blocked on a send, also for a result set that never ends.
C4_CancelLeadsToClose == cancelled ~> AllStopped

\* cancelled on a never-ending result set, and everything has stopped
C4_Witness == endless /\ cancelled /\ AllStopped /\ cur = <<0>> /\ N = 2

\* filter ran on a non-empty chunk with a MultiError of another length
LengthMismatch ==
    /\ fpc \in {"filtered", "hydrated"}
    /\ Len(fEntities) >= 1
    /\ IsMultiError(fErr)
    /\ Len(fErr.items) # Len(fEntities)

C12_LengthMismatchUnchanged ==
    (LengthMismatch /\ Len(fEntities) = 3)
        => fOut = [Entities |-> fEntities, Err |-> fErr]

\* C13: for an empty result set, without store failure or cancellation,
\* query does one iteration and sends one Unit with an empty chunk and no
\* error before it closes its channel, and the caller of New receives
\* exactly one empty Unit without error before the stream is closed.
C13_EmptyResultOneEmptyUnit ==
    (started /\ N = 0 /\ faults = 0 /\ ~cancelled /\ o.Query # Nil)
        => /\ qpc \in {"send", "sendErr"} => qunit = Unit(<<>>, NoErr)
           /\ qpc = "done" => emitted = 1 /\ Len(pages) = 1
           /\ \A i \in 1..Len(tasks) : tasks[i].u = Unit(<<>>, NoErr)
           /\ \A i \in 1..Len(received) : received[i].unit = Unit(<<>>, NoErr)
           /\ hpc = "closed" => Len(received) = 1

\* the pipeline ran to its end on an empty result set
C13_Witness ==
    /\ N = 0 /\ faults = 0 /\ ~cancelled
    /\ AllStopped
    /\ emitted = 1
    /\ Len(received) = 1
    /\ received[1].unit = Unit(<<>>, NoErr)

\* C14: after New with nil Options or a zero FetchLimit, query works with
\* FetchLimit 100; no iteration of a query started by New has a zero
\* FetchLimit, and every iteration either pulls a key or finds the result
\* set exhausted.
C14_ZeroChunkSizeNormalized ==
    started
        => /\ o.FetchLimit >= 1
           /\ (optsIn.nil \/ optsIn.FetchLimit = 0) => o.FetchLimit = defaultFetchLimit
           /\ \A i \in 1..Len(pages) :
                /\ pages[i].limit = o.FetchLimit
                /\ pages[i].isDone \/ pages[i].pulled >= 1

\* New with a zero FetchLimit read the whole result set as one page of 100
C14_Witness ==
    /\ started
    /\ optsIn.FetchLimit = 0 /\ ~optsIn.nil
    /\ N = MaxN
    /\ qpc = "done"
    /\ Len(pages) = 1
    /\ pages[1].limit = defaultFetchLimit
    /\ pages[1].pulled = N
    /\ pages[1].isDone

\* C15: on a finite result set, with a FetchLimit of at least one after
\* New, a caller that keeps receiving and never cancels, and store calls
\* that return, the stream is eventually closed under fair scheduling.
C15_FiniteStreamCloses == (started /\ ~endless) ~> (AllStopped \/ cancelled)

\* a finite result set of several chunks was read to the end
C15_Witness ==
    /\ ~endless /\ ~cancelled /\ faults = 0
    /\ AllStopped
    /\ N = MaxN
    /\ o.FetchLimit = 1
    /\ emitted = MaxN + 1
    /\ Len(received) = MaxN + 1

\* a Unit with an error and a nil Entities slice
ErrorOnly(u) == u.Err # NoErr => (u.IsNil /\ u.Entities = <<>>)

\* C16: every Unit that New's stream delivers with a non-nil error has nil
\* Entities, whether the error comes from query, from a batch fetch in
\* strict mode or from what filter left over in tolerant mode.
C16_ErrorUnitsCarryNoEntities ==
    /\ \A i \in 1..Len(received) : ErrorOnly(received[i].unit)
    /\ \A i \in 1..Len(tasks) : tasks[i].pc = "send" => ErrorOnly(tasks[i].res)
    /\ hpc = "sendErr" => (hunit.Err # NoErr /\ ErrorOnly(hunit))

\* a tolerant pipeline delivered the residual error of a chunk with a
\* record that fails for another reason than a field mismatch
C16_Witness ==
    /\ o.IgnoreErrFieldMismatch
    /\ \E i \in 1..Len(received) :
        /\ received[i].src = "task"
        /\ Len(received[i].fetchErr.items) = 2
        /\ CountOf(received[i].fetchErr.items, "other") = 1
        /\ received[i].unit = ErrUnit(WithStack(received[i].fetchErr))

\* the chunks of the log one after the other
RECURSIVE Concat(_)
Concat(log) ==
    IF log = <<>> THEN <<>> ELSE Head(log).unit.Entities \o Concat(Tail(log))

\* the keys of the result set in the store's order
Keys == [i \in 1..N |-> i]

\* C17: with the one-stub-per-key shaping function, no store failure and
\* no cancellation, the chunks query sends, one after the other, are a
\* prefix of the result set's key sequence, each page starts where the
\* page before ended, and once query has closed its channel they are the
\* whole key sequence: no key is left out or repeated across pages.
C17_ChunksConcatenateToKeys ==
    (o.Appender = "one" /\ faults = 0 /\ ~cancelled /\ o.FetchLimit >= 1)
        => /\ Len(Concat(received)) <= N
           /\ Concat(received) = SubSeq(Keys, 1, Len(Concat(received)))
           /\ \A i \in 1..Len(pages) :
                pages[i].start = IF i = 1 THEN 0
                                 ELSE pages[i - 1].start + pages[i - 1].pulled
           /\ qpc = "done" => Concat(received) = Keys

\* three keys read in pages of two
C17_Witness ==
    /\ o.Appender = "one" /\ faults = 0 /\ ~cancelled
    /\ qpc = "done"
    /\ N = MaxN
    /\ o.FetchLimit = 2
    /\ Len(received) = 2
    /\ received[1].unit.Entities = <<1, 2>>
    /\ received[2].unit.Entities = <<3>>

\* C18: every iteration of query pulls at most FetchLimit keys; an
\* iteration is the last one exactly when the iterator reported Done before
\* FetchLimit keys were pulled; every other iteration pulled exactly
\* FetchLimit keys and captured a new cursor at the iterator's position,
\* the last one pulled fewer and left the cursor alone; and query closes
\* its channel right after the send of the last iteration's chunk.
C18_PageSizes ==
    /\ \A i \in 1..Len(pages) :
        /\ pages[i].limit = o.FetchLimit
        /\ pages[i].pulled <= pages[i].limit
        /\ pages[i].isDone <=> pages[i].pulled < pages[i].limit
        /\ pages[i].isDone => /\ pages[i].curAfter = pages[i].curBefore
                              /\ i = Len(pages)
        /\ ~pages[i].isDone => pages[i].curAfter = <<pages[i].start + pages[i].pulled>>
    /\ (qpc = "done" /\ ~cancelled /\ faults = 0)
            => (pages # <<>> /\ pages[Len(pages)].isDone /\ emitted = Len(pages))
    /\ (pages # <<>> /\ pages[Len(pages)].isDone /\ emitted = Len(pages))
            => qpc = "done"

\* a result set of two full pages, closed by a third, empty one
C18_Witness ==
    /\ qpc = "done" /\ ~cancelled /\ faults = 0
    /\ N = 2
    /\ o.FetchLimit = 1
    /\ Len(pages) = 3
    /\ pages[2].pulled = 1 /\ pages[2].curAfter = <<2>>
    /\ pages[3].pulled = 0 /\ pages[3].isDone /\ pages[3].curAfter = <<2>>

\* C19: when t.Next or t.Cursor fails, query sends one Unit with that error
\* and nil Entities, whatever keys the iteration had gathered, and then
\* closes its channel without another store call.
C19_StoreErrorEndsQuery ==
    /\ qpc = "sendErr"
        => /\ Cause(qunit.Err).kind \in {"iter", "cursor"}
           /\ qunit.IsNil /\ qunit.Entities = <<>>
           /\ faults = 1
    /\ faults >= 1 => qpc \in {"sendErr", "done"}
    /\ \A i \in 1..Len(received) :
        received[i].unit.Err # NoErr
            => /\ i = Len(received)
               /\ received[i].unit.IsNil /\ received[i].unit.Entities = <<>>
               /\ qpc = "done"
    /\ (faults >= 1 /\ qpc = "done" /\ emitted < MaxLog)
        => (received # <<>> /\ received[Len(received)].unit.Err # NoErr)

\* the second page failed after it had gathered the third key
C19_Witness ==
    /\ qpc = "done"
    /\ faults = 1
    /\ N = MaxN
    /\ o.FetchLimit = 2
    /\ o.Appender = "one"
    /\ Len(received) = 2
    /\ received[1].unit = Unit(<<1, 2>>, NoErr)
    /\ received[2].unit = ErrUnit(WithStack(BareErr("iter")))

\* C20: after the context is cancelled, the caller receives at most one
\* more Unit from query's channel, chunk or error, before the channel is
\* closed.
C20_AtMostOneUnitAfterCancel ==
    Cardinality({i \in 1..Len(received) : received[i].afterCancel}) <= 1

\* the entries of the log that hydration goroutines sent
FromTasks == {i \in 1..Len(received) : received[i].src = "task"}

\* getMulti forwarded an error Unit of query, or is about to
InputErrorSeen == hunit.Err # NoErr

\* the number of hydration goroutines getMulti has started
Started == IF InputErrorSeen THEN emitted - 1 ELSE emitted

\* C21: getMulti closes out only after every hydration goroutine it
\* started has sent its Unit, and only after in was closed or an error Unit
\* of query was forwarded: no goroutine is left to send on the closed
\* channel and the Unit of every started goroutine reaches the caller.
C21_CloseAfterAllTasksSent ==
    /\ Cardinality(FromTasks) + Len(tasks) = Started
    /\ hpc \in {"wait", "closed"}
        => /\ qpc = "done"
           /\ InputErrorSeen
                => \E i \in 1..Len(received) :
                        received[i].src = "getMulti" /\ received[i].unit = hunit
    /\ hpc = "closed"
        => /\ tasks = <<>>
           /\ Cardinality(FromTasks) = Started

\* the stream was closed after four goroutines had sent, the second first
C21_Witness ==
    /\ hpc = "closed"
    /\ ~cancelled /\ faults = 0
    /\ N = MaxN
    /\ o.FetchLimit = 1
    /\ Cardinality(FromTasks) = MaxN + 1
    /\ received[1].no = 2

\* C22: the number of hydration goroutines that were started and have not
\* sent yet stays within what the rendezvous on the channels allows (one
\* goroutine blocked on out and one chunk query ran ahead), however many
\* chunks the result set has.
C22_PendingTasksBounded == Len(tasks) <= 2

\* the keys of the k-th page
PageKeys(k) == [j \in 1..pages[k].pulled |-> pages[k].start + j]

\* the chunk the shaping function made of the k-th page
Chunk(k) == IF o.Appender = "one" THEN PageKeys(k) ELSE <<>>

\* a is b without some of its items, the others in b's order (the items
\* of b are distinct keys)
IsSubSeq(a, b) ==
    \E f \in [1..Len(a) -> 1..Len(b)] :
        /\ \A i \in 1..Len(a) : a[i] = b[f[i]]
        /\ \A i, j \in 1..Len(a) : i < j => f[i] < f[j]

\* C23: every Unit without error the caller receives from New's stream
\* holds items of one chunk of query only, in the order query put them:
\* the whole chunk when the batch fetch returned nil, and otherwise the
\* chunk without the items filter dropped; Units may arrive in another
\* order than the pages.
C23_UnitIsOneChunkInOrder ==
    \A i \in FromTasks :
        received[i].unit.Err = NoErr
            => /\ received[i].no \in 1..Len(pages)
               /\ IsSubSeq(received[i].unit.Entities, Chunk(received[i].no))
               /\ received[i].fetchErr = NoErr
                    => received[i].unit.Entities = Chunk(received[i].no)
               /\ (/\ IsMultiError(received[i].fetchErr)
                   /\ Len(received[i].fetchErr.items) = Len(Chunk(received[i].no)))
                    => received[i].unit.Entities
                         = Survivors(Chunk(received[i].no), received[i].fetchErr.items)

\* a tolerant pipeline read three keys as one page and delivered it without
\* its stale middle key
C23_Witness ==
    /\ o.IgnoreErrFieldMismatch /\ o.Appender = "one"
    /\ N = MaxN
    /\ stale = {2}
    /\ optsIn.FetchLimit = 0
    /\ hpc = "closed"
    /\ Len(received) = 1
    /\ received[1].unit = Unit(<<1, 3>>, NoErr)

\* the Units of the log and of the pending goroutines that stem from the
\* k-th Unit of query
Outcomes(k) ==
    Cardinality({i \in FromTasks : received[i].no = k})
        + Cardinality({i \in 1..Len(tasks) : tasks[i].no = k})

RECURSIVE TotalPulled(_)
TotalPulled(ps) == IF ps = <<>> THEN 0 ELSE Head(ps).pulled + TotalPulled(Tail(ps))

\* C24: every Unit without error that getMulti receives has exactly one
\* hydration goroutine, which sends exactly one Unit, also for an empty
\* chunk; with a shaping function that appends nothing, no store failure
\* and no cancellation, query still reads the whole result set and the
\* caller receives floor(N/C) + 1 empty Units without error before the
\* stream is closed.
C24_OneUnitPerChunk ==
    /\ \A k \in 1..Started : Outcomes(k) = 1
    /\ hpc = "closed"
        => \A k \in 1..Started : Cardinality({i \in FromTasks : received[i].no = k}) = 1
    /\ (o.Appender = "none" /\ faults = 0 /\ ~cancelled /\ started)
        => /\ \A i \in 1..Len(received) : received[i].unit = Unit(<<>>, NoErr)
           /\ hpc = "closed"
                => /\ TotalPulled(pages) = N
                   /\ Len(received) = (N \div o.FetchLimit) + 1

\* TestIgnoreAll on three keys in pages of two: two empty Units
C24_Witness ==
    /\ o.Appender = "none" /\ o.IgnoreErrFieldMismatch
    /\ faults = 0 /\ ~cancelled
    /\ hpc = "closed"
    /\ N = MaxN
    /\ o.FetchLimit = 2
    /\ Len(received) = 2
    /\ received[1].unit = Unit(<<>>, NoErr)
    /\ received[2].unit = Unit(<<>>, NoErr)

====
